---------------------------- MODULE Spec2Model ----------------------------
(***************************************************************************)
(* A model of the fastener pricing tool:                                   *)
(*   - run_daily_scrape.py: the snapshot generator (main and its helpers), *)
(*     which reads products.csv and price_inventory_snapshots.csv, adds    *)
(*     one snapshot per simulated product and rewrites both files;         *)
(*   - dashboard.py: the analytics transform (load_data, the depletion     *)
(*     column and the three tabs).                                         *)
(*                                                                         *)
(* Representation.  A CSV file is a record [state, rows]: state is         *)
(* "missing", "malformed" or "ok", rows the sequence of its data rows.     *)
(* A date stored in a file is the ISO string YYYY-MM-DD, modelled as the   *)
(* triple <<y, m, d>>; a date held by the program (datetime.date, pandas   *)
(* Timestamp) is a day number counted from 1970-01-01.  Prices are in      *)
(* cents.  Averages and medians, floats in the program, are exact          *)
(* rationals <<numerator, denominator>> in lowest terms.                   *)
(***************************************************************************)
EXTENDS Integers, Sequences, FiniteSets, TLC

VARIABLES
    productsFile,     \* data/scraping_data/products.csv
    snapshotsFile,    \* data/scraping_data/price_inventory_snapshots.csv
    wallClock,        \* date.today(), a day number
    gpc,              \* generator: each run's position in main()
    exists_products,  \* generator: os.path.exists(PRODUCTS_CSV) as the run saw it
    exists_snapshots, \* generator: os.path.exists(SNAPSHOTS_CSV) as the run saw it
    products_df,      \* generator: main's local products_df
    snapshots_df,     \* generator: main's local snapshots_df
    today_str,        \* generator: main's local today_str
    started,          \* number of generator runs started
    completed,        \* number of generator runs that wrote both files
    overlapped,       \* history: two generator runs were in flight together
    dpc,              \* dashboard: position in the script
    df,               \* dashboard: load_data()'s merged frame
    fastener_type,    \* dashboard: the sidebar selection
    filtered_df,      \* dashboard: filtered, sorted, with daily_depletion_rate
    latest_df,        \* dashboard: tab1's latest row per product
    price_gap,        \* dashboard: tab1's price-gap metric
    product_df,       \* dashboard: tab2's rows of the tracked product
    steel_summary,    \* dashboard: tab3's per-product summary
    thresholds,       \* dashboard: tab3's median_price and median_velocity
    messages          \* dashboard: st.error / st.warning texts shown

gvars == <<gpc, exists_products, exists_snapshots, products_df, snapshots_df,
           today_str, started, completed, overlapped>>
dvars == <<dpc, df, fastener_type, filtered_df, latest_df, price_gap,
           product_df, steel_summary, thresholds, messages>>
vars == <<productsFile, snapshotsFile, wallClock, gvars, dvars>>

---------------------------------------------------------------------------
(* Bounds of the model. *)

MaxRuns == 2        \* generator runs started per behaviour
MaxTicks == 2       \* days the wall clock may advance
NTapes == 2         \* outcomes of the random module per run

Procs == {1, 2}     \* generator invocations that may exist at a time
SeqProcs == {1}     \* under the one-instance discipline: one after the other

---------------------------------------------------------------------------
(* Sequence helpers. *)

Range(s) == {s[i] : i \in 1..Len(s)}

RECURSIVE SumSeq(_)
SumSeq(s) == IF s = <<>> THEN 0 ELSE Head(s) + SumSeq(Tail(s))

RECURSIVE MaxSeq(_)
MaxSeq(s) == IF Len(s) = 1 THEN s[1]
             ELSE LET m == MaxSeq(Tail(s)) IN IF s[1] >= m THEN s[1] ELSE m

RECURSIVE FlattenSeq(_)
FlattenSeq(ss) == IF ss = <<>> THEN <<>> ELSE Head(ss) \o FlattenSeq(Tail(ss))

---------------------------------------------------------------------------
(* Dates: datetime.date <-> 'YYYY-MM-DD'. *)

\* date(y, m, d) as a day number (days since 1970-01-01), what
\* pd.to_datetime(...).date() recovers from the ISO string.
to_datetime(ymd) ==
    LET y0  == ymd[1]
        m   == ymd[2]
        d   == ymd[3]
        y   == IF m <= 2 THEN y0 - 1 ELSE y0
        era == y \div 400
        yoe == y - era * 400
        mp  == IF m > 2 THEN m - 3 ELSE m + 9
        doy == (153 * mp + 2) \div 5 + d - 1
        doe == yoe * 365 + yoe \div 4 - yoe \div 100 + doy
    IN  era * 146097 + doe - 719468

\* today.strftime('%Y-%m-%d'): the ISO string of a day number.
strftime(z0) ==
    LET z   == z0 + 719468
        era == z \div 146097
        doe == z - era * 146097
        yoe == (doe - doe \div 1460 + doe \div 36524 - doe \div 146096) \div 365
        doy == doe - (365 * yoe + yoe \div 4 - yoe \div 100)
        mp  == (5 * doy + 2) \div 153
        d   == doy - (153 * mp + 2) \div 5 + 1
        m   == IF mp < 10 THEN mp + 3 ELSE mp - 9
        y   == yoe + era * 400
    IN  <<IF m <= 2 THEN y + 1 ELSE y, m, d>>

\* The first day the wall clock shows, chosen so that the runs cross the
\* leap day and the month's end.
FirstDate == <<2024, 2, 29>>
FirstDay == to_datetime(FirstDate)

---------------------------------------------------------------------------
(* run_daily_scrape.py: configuration. *)

SITE_NAME == "mcmaster_clone"

SIMULATED_PRODUCTS == <<
    [sku |-> "91251A541", fastener_type |-> "machine screw",
     material |-> "stainless steel 316", grade_or_alloy |-> "18-8",
     diameter_mm |-> 5, length_mm |-> 20, price_per_unit |-> 55,
     inventory |-> 1500, manufacturer |-> "Generic Steel Co."],
    [sku |-> "91251A542", fastener_type |-> "machine screw",
     material |-> "alloy steel", grade_or_alloy |-> "Grade 8",
     diameter_mm |-> 5, length_mm |-> 20, price_per_unit |-> 45,
     inventory |-> 2500, manufacturer |-> "Generic Steel Co."],
    [sku |-> "T91251A541", fastener_type |-> "machine screw",
     material |-> "titanium", grade_or_alloy |-> "Ti-6Al-4V",
     diameter_mm |-> 5, length_mm |-> 20, price_per_unit |-> 125,
     inventory |-> 400, manufacturer |-> "Premium Ti Supply"],
    [sku |-> "HWB200", fastener_type |-> "hex bolt",
     material |-> "alloy steel", grade_or_alloy |-> "Grade 5",
     diameter_mm |-> 10, length_mm |-> 50, price_per_unit |-> 110,
     inventory |-> 800, manufacturer |-> "Bolts'R'Us"],
    [sku |-> "HWB201_TI", fastener_type |-> "hex bolt",
     material |-> "titanium", grade_or_alloy |-> "Grade 2",
     diameter_mm |-> 10, length_mm |-> 50, price_per_unit |-> 350,
     inventory |-> 200, manufacturer |-> "Premium Ti Supply"] >>

NProducts == Len(SIMULATED_PRODUCTS)

\* f"{SITE_NAME}_{sku}"
ProductId(sku) == SITE_NAME \o "_" \o sku

---------------------------------------------------------------------------
(* Files. *)

MissingFile == [state |-> "missing", rows |-> <<>>]
MalformedFile == [state |-> "malformed", rows |-> <<>>]
OkFile(rows) == [state |-> "ok", rows |-> rows]

\* os.path.exists(path)
PathExists(file) == file.state # "missing"

\* Variant: pd.read_csv without the os.path.exists test.
ReadCsvSkippingExistsCheck(file) ==
    IF file.state = "ok" THEN [raised |-> FALSE, rows |-> file.rows]
    ELSE [raised |-> TRUE, rows |-> <<>>]

\* main's "load existing data or create empty DataFrames": the frame read
\* from an existing file, an empty frame for a missing one; pd.read_csv
\* raises on a file it cannot parse and main catches nothing.
LoadOrEmpty(file) ==
    IF ~PathExists(file) THEN [raised |-> FALSE, rows |-> <<>>]
    ELSE IF file.state = "malformed" THEN [raised |-> TRUE, rows |-> <<>>]
    ELSE [raised |-> FALSE, rows |-> file.rows]

---------------------------------------------------------------------------
(* run_daily_scrape.py: get_current_date and simulate_daily_changes. *)

\* Variant: date.today() whatever the table holds.
GetCurrentDateFromClock(snaps, clock) == clock

\* get_current_date(snapshots_df), with date.today() = clock
get_current_date(snaps, clock) ==
    IF snaps = <<>> THEN clock
    ELSE MaxSeq([i \in 1..Len(snaps) |-> to_datetime(snaps[i].date_scraped)]) + 1

\* The random module's answers for the i-th product under tape t: the
\* depletion is an end of randint's range, the restock happens or not, the
\* price moves by -3, 0 or +3 percent.
RandomDraw(t, i) ==
    [high    |-> (t + i) % 2 = 0,
     restock |-> (t + i) % 3 = 0,
     pct     |-> (((t + 2 * i) % 3) - 1) * 3]

\* round(last_price * (1 + price_change), 2), in cents
NewPrice(last_price, pct) == (last_price * (100 + pct) + 50) \div 100

Max0(n) == IF n > 0 THEN n ELSE 0

\* One pass of simulate_daily_changes' loop: the scraped item of the i-th
\* simulated product.
SimulateProduct(snaps, i, today, t) ==
    LET product_data == SIMULATED_PRODUCTS[i]
        product_id == ProductId(product_data.sku)
        last_snapshot == SelectSeq(snaps, LAMBDA r : r.product_id = product_id)
        has_last == last_snapshot # <<>>
        last_inventory == IF has_last
                          THEN last_snapshot[Len(last_snapshot)].inventory_level
                          ELSE product_data.inventory
        last_price == IF has_last
                      THEN last_snapshot[Len(last_snapshot)].price_per_unit
                      ELSE product_data.price_per_unit
        draw == RandomDraw(t, i)
        depletion == IF draw.high THEN (last_inventory * 5) \div 100
                     ELSE last_inventory \div 100
        new_inventory == (last_inventory - depletion)
                         + (IF draw.restock THEN product_data.inventory ELSE 0)
    IN  [product_data EXCEPT !.price_per_unit = NewPrice(last_price, draw.pct),
                             !.inventory = Max0(new_inventory)]
        @@ [date_scraped |-> today]

simulate_daily_changes(snaps, clock, t) ==
    LET today == get_current_date(snaps, clock)
    IN  [i \in 1..NProducts |-> SimulateProduct(snaps, i, today, t)]

---------------------------------------------------------------------------
(* run_daily_scrape.py: main, steps 3 and 4. *)

HasProduct(prods, product_id) ==
    \E k \in 1..Len(prods) : prods[k].product_id = product_id

NewProductRow(item, date_str) ==
    [product_id |-> ProductId(item.sku), site |-> SITE_NAME, sku |-> item.sku,
     fastener_type |-> item.fastener_type, material |-> item.material,
     grade_or_alloy |-> item.grade_or_alloy, diameter_mm |-> item.diameter_mm,
     length_mm |-> item.length_mm, manufacturer |-> item.manufacturer,
     first_seen_date |-> date_str, last_seen_date |-> date_str]

\* Variant: the update also resets first_seen_date.
UpdateProductsOverwritingFirstSeen(prods, scraped_data, date_str) ==
    [k \in 1..Len(prods) |->
        [prods[k] EXCEPT !.first_seen_date = date_str, !.last_seen_date = date_str]]
    \o SelectSeq([i \in 1..Len(scraped_data) |-> NewProductRow(scraped_data[i], date_str)],
                 LAMBDA r : ~HasProduct(prods, r.product_id))

\* Variant: new products are not appended.
UpdateProductsNeverInserting(prods, scraped_data, date_str) ==
    [k \in 1..Len(prods) |-> [prods[k] EXCEPT !.last_seen_date = date_str]]

\* The products table after main's loop and concat: last_seen_date of every
\* scraped product already in the table is set, the others are appended in
\* scraped order.  (The membership test reads the loaded frame, which the
\* loop changes only in last_seen_date.)
UpdateProducts(prods, scraped_data, date_str) ==
    LET scraped_ids == {ProductId(scraped_data[i].sku) : i \in 1..Len(scraped_data)}
        updated == [k \in 1..Len(prods) |->
                      IF prods[k].product_id \in scraped_ids
                      THEN [prods[k] EXCEPT !.last_seen_date = date_str]
                      ELSE prods[k]]
        new_products ==
            SelectSeq([i \in 1..Len(scraped_data) |-> NewProductRow(scraped_data[i], date_str)],
                      LAMBDA r : ~HasProduct(prods, r.product_id))
    IN  updated \o new_products

NewSnapshotRow(item, date_str, id) ==
    [snapshot_id |-> id, product_id |-> ProductId(item.sku),
     date_scraped |-> date_str, price_per_unit |-> item.price_per_unit,
     inventory_level |-> item.inventory]

\* Variant: the new rows replace the table.
AppendSnapshotsDroppingOld(snaps, scraped_data, date_str) ==
    [i \in 1..Len(scraped_data) |-> NewSnapshotRow(scraped_data[i], date_str, i - 1)]

\* Variant: ids continue from len(snapshots_df) + 1.
AppendSnapshotsNumberedByLength(snaps, scraped_data, date_str) ==
    snaps \o [i \in 1..Len(scraped_data) |->
                NewSnapshotRow(scraped_data[i], date_str, Len(snaps) + i)]

\* The snapshots table after main's step 4: one new row per scraped item,
\* numbered from max(snapshot_id) + 1, or from 0 for an empty table.
AppendSnapshots(snaps, scraped_data, date_str) ==
    LET last_id == IF snaps # <<>>
                   THEN MaxSeq([i \in 1..Len(snaps) |-> snaps[i].snapshot_id])
                   ELSE -1
    IN  snaps \o [i \in 1..Len(scraped_data) |->
                    NewSnapshotRow(scraped_data[i], date_str, last_id + i)]

---------------------------------------------------------------------------
(* The generator as a process: main(), cut at its file accesses. *)

InFlight(q) == gpc[q] \in {"read_products", "loaded", "processed", "wrote_products"}

NoneInFlight == \A q \in Procs : ~InFlight(q)

\* main, step 1, products: os.path.exists(PRODUCTS_CSV), pd.read_csv or the
\* empty frame.  A new invocation starts here.
LoadProducts(p) ==
    /\ ~InFlight(p)
    /\ started < MaxRuns
    /\ started' = started + 1
    /\ overlapped' = (overlapped \/ \E q \in Procs \ {p} : InFlight(q))
    /\ exists_products' = [exists_products EXCEPT ![p] = PathExists(productsFile)]
    /\ LET r == LoadOrEmpty(productsFile)
       IN  /\ gpc' = [gpc EXCEPT ![p] = IF r.raised THEN "error" ELSE "read_products"]
           /\ products_df' = [products_df EXCEPT ![p] = r.rows]
    /\ snapshots_df' = [snapshots_df EXCEPT ![p] = <<>>]
    /\ today_str' = [today_str EXCEPT ![p] = <<>>]
    /\ UNCHANGED <<productsFile, snapshotsFile, wallClock, exists_snapshots,
                   completed, dvars>>

\* main, step 1, snapshots: os.path.exists(SNAPSHOTS_CSV), pd.read_csv or
\* the empty frame.
LoadSnapshots(p) ==
    /\ gpc[p] = "read_products"
    /\ exists_snapshots' = [exists_snapshots EXCEPT ![p] = PathExists(snapshotsFile)]
    /\ LET r == LoadOrEmpty(snapshotsFile)
       IN  /\ gpc' = [gpc EXCEPT ![p] = IF r.raised THEN "error" ELSE "loaded"]
           /\ snapshots_df' = [snapshots_df EXCEPT ![p] = r.rows]
    /\ UNCHANGED <<productsFile, snapshotsFile, wallClock, exists_products,
                   products_df, today_str, started, completed, overlapped, dvars>>

\* main, steps 2 to 4 up to the concats: the scraped data of the day, the
\* updated products frame and the extended snapshots frame.
Process(p) ==
    /\ gpc[p] = "loaded"
    /\ \E t \in 1..NTapes :
         LET scraped_data == simulate_daily_changes(snapshots_df[p], wallClock, t)
             date_str == strftime(scraped_data[1].date_scraped)
         IN  /\ today_str' = [today_str EXCEPT ![p] = date_str]
             /\ products_df' = [products_df EXCEPT
                    ![p] = UpdateProducts(products_df[p], scraped_data, date_str)]
             /\ snapshots_df' = [snapshots_df EXCEPT
                    ![p] = AppendSnapshots(snapshots_df[p], scraped_data, date_str)]
    /\ gpc' = [gpc EXCEPT ![p] = "processed"]
    /\ UNCHANGED <<productsFile, snapshotsFile, wallClock, exists_products,
                   exists_snapshots, started, completed, overlapped, dvars>>

\* products_df.to_csv(PRODUCTS_CSV, index=False)
WriteProducts(p) ==
    /\ gpc[p] = "processed"
    /\ productsFile' = OkFile(products_df[p])
    /\ gpc' = [gpc EXCEPT ![p] = "wrote_products"]
    /\ UNCHANGED <<snapshotsFile, wallClock, exists_products, exists_snapshots,
                   products_df, snapshots_df, today_str, started, completed,
                   overlapped, dvars>>

\* snapshots_df.to_csv(SNAPSHOTS_CSV, index=False), and main returns
WriteSnapshots(p) ==
    /\ gpc[p] = "wrote_products"
    /\ snapshotsFile' = OkFile(snapshots_df[p])
    /\ gpc' = [gpc EXCEPT ![p] = "done"]
    /\ completed' = completed + 1
    /\ UNCHANGED <<productsFile, wallClock, exists_products, exists_snapshots,
                   products_df, snapshots_df, today_str, started, overlapped, dvars>>

\* One instance at a time: an invocation starts only when no other is in
\* flight.
ExclusiveLoadProducts(p) == NoneInFlight /\ LoadProducts(p)

\* The calendar day changes between or during runs.
Tick ==
    /\ wallClock < FirstDay + MaxTicks
    /\ wallClock' = wallClock + 1
    /\ UNCHANGED <<productsFile, snapshotsFile, gvars, dvars>>

\* Between runs a file is removed, or left in a form pd.read_csv rejects
\* (emptied, truncated, overwritten by something that is no CSV).
RemoveProductsFile ==
    /\ NoneInFlight /\ productsFile.state # "missing"
    /\ productsFile' = MissingFile
    /\ UNCHANGED <<snapshotsFile, wallClock, gvars, dvars>>

RemoveSnapshotsFile ==
    /\ NoneInFlight /\ snapshotsFile.state # "missing"
    /\ snapshotsFile' = MissingFile
    /\ UNCHANGED <<productsFile, wallClock, gvars, dvars>>

CorruptProductsFile ==
    /\ NoneInFlight /\ productsFile.state = "ok"
    /\ productsFile' = MalformedFile
    /\ UNCHANGED <<snapshotsFile, wallClock, gvars, dvars>>

CorruptSnapshotsFile ==
    /\ NoneInFlight /\ snapshotsFile.state = "ok"
    /\ snapshotsFile' = MalformedFile
    /\ UNCHANGED <<productsFile, wallClock, gvars, dvars>>

NoSelection == "<None>"

DashOff ==
    /\ dpc = "off"
    /\ df = <<>>
    /\ fastener_type = NoSelection
    /\ filtered_df = <<>>
    /\ latest_df = <<>>
    /\ price_gap = [shown |-> FALSE]
    /\ product_df = <<>>
    /\ steel_summary = <<>>
    /\ thresholds = <<>>
    /\ messages = {}

GenIdle ==
    /\ gpc = [p \in Procs |-> "idle"]
    /\ exists_products = [p \in Procs |-> FALSE]
    /\ exists_snapshots = [p \in Procs |-> FALSE]
    /\ products_df = [p \in Procs |-> <<>>]
    /\ snapshots_df = [p \in Procs |-> <<>>]
    /\ today_str = [p \in Procs |-> <<>>]
    /\ started = 0
    /\ completed = 0
    /\ overlapped = FALSE

\* The generator starts from an empty table pair: neither file exists.
InitGen ==
    /\ productsFile = MissingFile
    /\ snapshotsFile = MissingFile
    /\ wallClock = FirstDay
    /\ GenIdle
    /\ DashOff

\* Generator runs, one at a time.
NextSeq ==
    \/ Tick
    \/ \E p \in SeqProcs :
         \/ ExclusiveLoadProducts(p)
         \/ LoadSnapshots(p)
         \/ Process(p)
         \/ WriteProducts(p)
         \/ WriteSnapshots(p)

SpecSeq == InitGen /\ [][NextSeq]_vars

\* Generator runs, one at a time, with files removed or damaged in between.
NextFaults ==
    \/ NextSeq
    \/ RemoveProductsFile
    \/ RemoveSnapshotsFile
    \/ CorruptProductsFile
    \/ CorruptSnapshotsFile

SpecFaults == InitGen /\ [][NextFaults]_vars

\* Generator runs with no discipline: invocations interleave freely.
NextConc ==
    \/ Tick
    \/ \E p \in Procs :
         \/ LoadProducts(p)
         \/ LoadSnapshots(p)
         \/ Process(p)
         \/ WriteProducts(p)
         \/ WriteSnapshots(p)

SpecConc == InitGen /\ [][NextConc]_vars

---------------------------------------------------------------------------
(* Numbers of the dashboard: exact rationals <<n, d>>, d > 0, in lowest    *)
(* terms; NaN is <<0, 0>>.                                                 *)

RECURSIVE GCD(_, _)
GCD(a, b) == IF b = 0 THEN a ELSE GCD(b, a % b)

Abs(n) == IF n < 0 THEN -n ELSE n

Rat(n, d) ==
    LET g == GCD(Abs(n), Abs(d))
        sign == IF d < 0 THEN -1 ELSE 1
    IN  <<sign * (n \div g), sign * (d \div g)>>

NaN == <<0, 0>>
notna(x) == x[2] # 0
RatOfInt(n) == <<n, 1>>
RatAdd(a, b) == Rat(a[1] * b[2] + b[1] * a[2], a[2] * b[2])
RatSub(a, b) == Rat(a[1] * b[2] - b[1] * a[2], a[2] * b[2])
RatDiv(a, b) == Rat(a[1] * b[2], a[2] * b[1])
RatLess(a, b) == a[1] * b[2] < b[1] * a[2]

RECURSIVE RatSum(_)
RatSum(s) == IF s = <<>> THEN RatOfInt(0) ELSE RatAdd(Head(s), RatSum(Tail(s)))

\* Where value x goes in the ascending sequence s: after the values not
\* greater than it.
RECURSIVE InsertRat(_, _)
InsertRat(s, x) ==
    IF s = <<>> THEN <<x>>
    ELSE IF RatLess(x, s[Len(s)]) THEN Append(InsertRat(SubSeq(s, 1, Len(s) - 1), x), s[Len(s)])
    ELSE Append(s, x)

RECURSIVE SortRats(_)
SortRats(s) == IF s = <<>> THEN <<>>
               ELSE InsertRat(SortRats(SubSeq(s, 1, Len(s) - 1)), s[Len(s)])

\* Series.median(): NaN of no value, else the middle of the sorted values,
\* the mean of the two middle ones for an even count.
Median(values) ==
    LET n == Len(values)
        sorted == SortRats(values)
    IN  IF n = 0 THEN NaN
        ELSE IF n % 2 = 1 THEN sorted[(n + 1) \div 2]
        ELSE RatDiv(RatAdd(sorted[n \div 2], sorted[n \div 2 + 1]), RatOfInt(2))

\* Series.mean() of a non-empty series of integers
Mean(ints) == Rat(SumSeq(ints), Len(ints))

---------------------------------------------------------------------------
(* Strings of the dashboard: the text of a material name, character by     *)
(* character, for str.contains; Python's order of product ids, for the     *)
(* sort.                                                                   *)

Chars(s) ==
    CASE s = "titanium" -> <<"t", "i", "t", "a", "n", "i", "u", "m">>
      [] s = "alloy steel" -> <<"a", "l", "l", "o", "y", " ", "s", "t", "e", "e", "l">>
      [] s = "stainless steel 316" ->
            <<"s", "t", "a", "i", "n", "l", "e", "s", "s", " ",
              "s", "t", "e", "e", "l", " ", "3", "1", "6">>
      [] s = "Stainless Steel 316" ->
            <<"S", "t", "a", "i", "n", "l", "e", "s", "s", " ",
              "S", "t", "e", "e", "l", " ", "3", "1", "6">>
      [] s = "brass" -> <<"b", "r", "a", "s", "s">>
      [] s = "steel" -> <<"s", "t", "e", "e", "l">>

UpperCase == <<"A", "B", "C", "D", "E", "F", "G", "H", "I", "J", "K", "L", "M",
               "N", "O", "P", "Q", "R", "S", "T", "U", "V", "W", "X", "Y", "Z">>
LowerCase == <<"a", "b", "c", "d", "e", "f", "g", "h", "i", "j", "k", "l", "m",
               "n", "o", "p", "q", "r", "s", "t", "u", "v", "w", "x", "y", "z">>

LowerChar(c) ==
    IF \E k \in 1..Len(UpperCase) : UpperCase[k] = c
    THEN LowerCase[CHOOSE k \in 1..Len(UpperCase) : UpperCase[k] = c]
    ELSE c

Lower(text) == [i \in 1..Len(text) |-> LowerChar(text[i])]

IsSubstring(needle, text) ==
    \E i \in 1..(Len(text) - Len(needle) + 1) :
        SubSeq(text, i, i + Len(needle) - 1) = needle

\* Variant: str.contains('steel') with the default case=True.
ContainsSteelCaseSensitive(material) == IsSubstring(Chars("steel"), Chars(material))

\* material.str.contains('steel', case=False)
ContainsSteel(material) == IsSubstring(Chars("steel"), Lower(Chars(material)))

\* The product ids the dashboard is run on, in Python's string order.
IdOrder == <<"P1", "P2", "P3", "P4">>

IdRank(id) == CHOOSE k \in 1..Len(IdOrder) : IdOrder[k] = id

---------------------------------------------------------------------------
(* dashboard.py: load_data. *)

\* A pandas Timestamp is <<day number>>, NaT is <<>>; an empty date cell of
\* the file is <<>> too.
NaT == <<>>

\* pd.to_datetime(snapshots_df['date_scraped']), one cell
ParseDate(cell) == IF cell = <<>> THEN NaT ELSE <<to_datetime(cell)>>

MergedRow(snap, prod) ==
    [snapshot_id |-> snap.snapshot_id, product_id |-> snap.product_id,
     date_scraped |-> ParseDate(snap.date_scraped),
     price_per_unit |-> snap.price_per_unit,
     inventory_level |-> snap.inventory_level,
     fastener_type |-> prod.fastener_type, material |-> prod.material,
     manufacturer |-> prod.manufacturer,
     first_seen_date |-> prod.first_seen_date,
     last_seen_date |-> prod.last_seen_date]

\* pd.merge(snapshots_df, products_df, on='product_id'): the inner join, in
\* the order of the snapshots.
Merge(snaps, prods) ==
    FlattenSeq([i \in 1..Len(snaps) |->
        LET matches == SelectSeq(prods, LAMBDA r : r.product_id = snaps[i].product_id)
        IN  [k \in 1..Len(matches) |-> MergedRow(snaps[i], matches[k])]])

\* Series.unique(): the values in order of first appearance
RECURSIVE Unique(_)
Unique(s) ==
    IF s = <<>> THEN <<>>
    ELSE LET front == Unique(SubSeq(s, 1, Len(s) - 1))
             last == s[Len(s)]
         IN  IF \E i \in 1..Len(front) : front[i] = last THEN front
             ELSE Append(front, last)

Column(rows, name) == [i \in 1..Len(rows) |-> rows[i][name]]

---------------------------------------------------------------------------
(* dashboard.py: the filter and the depletion column. *)

\* Timestamps ascending, NaT last (sort_values' na_position)
DateBefore(a, b) == a # NaT /\ (b = NaT \/ a[1] < b[1])

RowBefore(a, b) ==
    \/ IdRank(a.product_id) < IdRank(b.product_id)
    \/ a.product_id = b.product_id /\ DateBefore(a.date_scraped, b.date_scraped)

RECURSIVE InsertRow(_, _)
InsertRow(s, r) ==
    IF s = <<>> THEN <<r>>
    ELSE IF RowBefore(r, s[Len(s)])
         THEN Append(InsertRow(SubSeq(s, 1, Len(s) - 1), r), s[Len(s)])
    ELSE Append(s, r)

\* filtered_df.sort_values(['product_id', 'date_scraped']): stable
RECURSIVE SortValues(_)
SortValues(s) == IF s = <<>> THEN <<>>
                 ELSE InsertRow(SortValues(SubSeq(s, 1, Len(s) - 1)), s[Len(s)])

\* Variant: diff() without the groupby.
DepletionAcrossProducts(rows, i) ==
    IF i = 1 THEN 0
    ELSE LET x == rows[i - 1].inventory_level - rows[i].inventory_level
         IN  IF x > 0 THEN x ELSE 0

\* groupby('product_id')['inventory_level'].diff() * -1 at row i, then the
\* lambda: the decrease since the previous row of the same product, 0 for
\* the product's first row (NaN) and for a change that is not positive.
DailyDepletionRate(rows, i) ==
    LET earlier == {j \in 1..(i - 1) : rows[j].product_id = rows[i].product_id}
    IN  IF earlier = {} THEN 0
        ELSE LET prev == CHOOSE j \in earlier : \A k \in earlier : k <= j
                 x == (rows[i].inventory_level - rows[prev].inventory_level) * (-1)
             IN  IF x > 0 THEN x ELSE 0

\* Lines 46 to 58: the rows of the selected type, sorted, with their
\* daily_depletion_rate.
FilterAndDeplete(frame, ft) ==
    LET sorted == SortValues(SelectSeq(frame, LAMBDA r : r.fastener_type = ft))
    IN  [i \in 1..Len(sorted) |->
            sorted[i] @@ [daily_depletion_rate |-> DailyDepletionRate(sorted, i)]]

---------------------------------------------------------------------------
(* dashboard.py: tab1, price benchmarking. *)

GroupRows(rows, id) == SelectSeq(rows, LAMBDA r : r.product_id = id)

\* The group keys of groupby('product_id'), ascending
GroupKeys(rows) ==
    LET ids == Range(Column(rows, "product_id"))
    IN  SelectSeq(IdOrder, LAMBDA id : id \in ids)

AllNaT(rows) == \A i \in 1..Len(rows) : rows[i].date_scraped = NaT

\* Series.idxmax() of a group with a date: the first row holding the
\* latest date, NaT skipped.
IdxMax(rows) ==
    LET dated == {i \in 1..Len(rows) : rows[i].date_scraped # NaT}
        best == CHOOSE i \in dated :
                    /\ \A j \in dated : rows[j].date_scraped[1] <= rows[i].date_scraped[1]
                    /\ \A j \in dated : rows[j].date_scraped = rows[i].date_scraped => i <= j
    IN  rows[best]

\* groupby('product_id')['date_scraped'].idxmax() has no label for a group
\* whose dates are all NaT, and filtered_df.loc[...] raises on it.
LatestRaises(rows) ==
    \E k \in 1..Len(GroupKeys(rows)) : AllNaT(GroupRows(rows, GroupKeys(rows)[k]))

Latest(rows) ==
    LET keys == GroupKeys(rows)
    IN  [k \in 1..Len(keys) |-> IdxMax(GroupRows(rows, keys[k]))]

Prices(rows) == [i \in 1..Len(rows) |-> RatOfInt(rows[i].price_per_unit)]

\* Lines 84 to 96: the two medians, and when both exist their difference
\* and ratio; otherwise nothing but the warning.
PriceGap(latest) ==
    LET titanium_price == Median(Prices(SelectSeq(latest, LAMBDA r : r.material = "titanium")))
        steel_price == Median(Prices(SelectSeq(latest, LAMBDA r : ContainsSteel(r.material))))
    IN  IF notna(titanium_price) /\ notna(steel_price)
        THEN [shown |-> TRUE, titanium_price |-> titanium_price,
              steel_price |-> steel_price,
              price_gap |-> RatSub(titanium_price, steel_price),
              price_ratio |-> RatDiv(titanium_price, steel_price)]
        ELSE [shown |-> FALSE]

---------------------------------------------------------------------------
(* dashboard.py: tab3, the opportunity matrix. *)

NUnique(dates) == Cardinality({dates[i] : i \in 1..Len(dates)} \ {NaT})

\* Variant: days_tracked as 'count' instead of 'nunique'.
SummaryRowCountingRows(rows, id) ==
    LET g == GroupRows(rows, id)
        total == SumSeq(Column(g, "daily_depletion_rate"))
        days == Len(g)
    IN  [product_id |-> id,
         avg_price |-> Mean(Column(g, "price_per_unit")),
         total_depletion |-> total,
         days_tracked |-> days,
         avg_daily_depletion |-> IF days > 0 THEN Rat(total, days) ELSE RatOfInt(0)]

\* One row of steel_summary: the agg of a product's group and its
\* avg_daily_depletion.
SummaryRow(rows, id) ==
    LET g == GroupRows(rows, id)
        total == SumSeq(Column(g, "daily_depletion_rate"))
        days == NUnique(Column(g, "date_scraped"))
    IN  [product_id |-> id,
         avg_price |-> Mean(Column(g, "price_per_unit")),
         total_depletion |-> total,
         days_tracked |-> days,
         avg_daily_depletion |-> IF days > 0 THEN Rat(total, days) ELSE RatOfInt(0)]

SteelRows(rows) == SelectSeq(rows, LAMBDA r : ContainsSteel(r.material))

SteelSummary(steel_df) ==
    LET keys == GroupKeys(steel_df)
    IN  [k \in 1..Len(keys) |-> SummaryRow(steel_df, keys[k])]

---------------------------------------------------------------------------
(* dashboard.py as a process: one run of the script, cut at load_data, the *)
(* sidebar and the three tabs.  An exception no handler catches ends the   *)
(* run where it is raised.                                                 *)

DataNotFound == "Data not found"
CouldNotCalculate == "Could not calculate price gap"
NoProductsFound == "No products found for the selected fastener type"
NoSteelProducts == "No steel products found for this fastener type"

\* df = load_data(), and the branch on df is None
LoadData ==
    /\ dpc = "start"
    /\ IF ~PathExists(productsFile) \/ ~PathExists(snapshotsFile)
       THEN /\ dpc' = "no_data"
            /\ messages' = messages \cup {DataNotFound}
            /\ df' = df
       ELSE IF LoadOrEmpty(productsFile).raised \/ LoadOrEmpty(snapshotsFile).raised
       THEN /\ dpc' = "exception"
            /\ UNCHANGED <<df, messages>>
       ELSE /\ dpc' = "sidebar"
            /\ df' = Merge(snapshotsFile.rows, productsFile.rows)
            /\ messages' = messages
    /\ UNCHANGED <<productsFile, snapshotsFile, wallClock, gvars, fastener_type,
                   filtered_df, latest_df, price_gap, product_df, steel_summary,
                   thresholds>>

\* The selectbox over df['fastener_type'].unique() (None when there is no
\* option), the filter and the depletion column.
Sidebar ==
    /\ dpc = "sidebar"
    /\ LET options == Unique(Column(df, "fastener_type"))
       IN  IF options = <<>>
           THEN fastener_type' = NoSelection
           ELSE \E k \in 1..Len(options) : fastener_type' = options[k]
    /\ filtered_df' = FilterAndDeplete(df, fastener_type')
    /\ dpc' = "tab1"
    /\ UNCHANGED <<productsFile, snapshotsFile, wallClock, gvars, df, latest_df,
                   price_gap, product_df, steel_summary, thresholds, messages>>

\* with tab1: fastener_type.title() raises on None; the latest row per
\* product; the price gap.
Tab1 ==
    /\ dpc = "tab1"
    /\ IF fastener_type = NoSelection \/ LatestRaises(filtered_df)
       THEN /\ dpc' = "exception"
            /\ UNCHANGED <<latest_df, price_gap, messages>>
       ELSE /\ dpc' = "tab2"
            /\ latest_df' = Latest(filtered_df)
            /\ price_gap' = PriceGap(latest_df')
            /\ messages' = IF price_gap'.shown THEN messages
                           ELSE messages \cup {CouldNotCalculate}
    /\ UNCHANGED <<productsFile, snapshotsFile, wallClock, gvars, df, fastener_type,
                   filtered_df, product_df, steel_summary, thresholds>>

\* with tab2: the warning for an empty frame, else the tracked product's
\* rows.
Tab2 ==
    /\ dpc = "tab2"
    /\ IF filtered_df = <<>>
       THEN /\ messages' = messages \cup {NoProductsFound}
            /\ product_df' = product_df
       ELSE /\ \E k \in 1..Len(Unique(Column(filtered_df, "product_id"))) :
                 product_df' = GroupRows(filtered_df,
                                         Unique(Column(filtered_df, "product_id"))[k])
            /\ messages' = messages
    /\ dpc' = "tab3"
    /\ UNCHANGED <<productsFile, snapshotsFile, wallClock, gvars, df, fastener_type,
                   filtered_df, latest_df, price_gap, steel_summary, thresholds>>

\* with tab3: the warning when no steel row is in view, else steel_summary
\* and the two medians.
Tab3 ==
    /\ dpc = "tab3"
    /\ LET steel_df == SteelRows(filtered_df)
       IN  IF steel_df = <<>>
           THEN /\ messages' = messages \cup {NoSteelProducts}
                /\ UNCHANGED <<steel_summary, thresholds>>
           ELSE /\ steel_summary' = SteelSummary(steel_df)
                /\ thresholds' =
                      <<Median(Column(steel_summary', "avg_price")),
                        Median(Column(steel_summary', "avg_daily_depletion"))>>
                /\ messages' = messages
    /\ dpc' = "done"
    /\ UNCHANGED <<productsFile, snapshotsFile, wallClock, gvars, df, fastener_type,
                   filtered_df, latest_df, price_gap, product_df>>

---------------------------------------------------------------------------
(* The tables the dashboard is run on. *)

MaxSnapshotRows == 2     \* rows of the snapshot file

Date1 == <<2024, 2, 29>>
Date2 == <<2024, 3, 1>>
NoDate == <<>>           \* an empty date_scraped cell

CatalogRow(id, ft, material) ==
    [product_id |-> id, site |-> SITE_NAME, sku |-> id, fastener_type |-> ft,
     material |-> material, grade_or_alloy |-> "-", diameter_mm |-> 5,
     length_mm |-> 20, manufacturer |-> "Maker", first_seen_date |-> Date1,
     last_seen_date |-> Date2]

Catalog == <<CatalogRow("P1", "machine screw", "titanium"),
             CatalogRow("P2", "machine screw", "alloy steel"),
             CatalogRow("P3", "machine screw", "Stainless Steel 316"),
             CatalogRow("P4", "hex bolt", "brass")>>

SnapshotCells(ids, dates, prices, levels) ==
    [product_id : ids, date_scraped : dates, price_per_unit : prices,
     inventory_level : levels]

\* The snapshot files of at most MaxSnapshotRows rows drawn from cells,
\* numbered 0, 1, 2, ... as the generator numbers them.
SnapshotTables(cells) ==
    UNION {{[i \in 1..n |-> cs[i] @@ [snapshot_id |-> i - 1]] : cs \in [1..n -> cells]}
           : n \in 0..MaxSnapshotRows}

\* Inventory histories of two products of one type.
DepletionInputs ==
    SnapshotTables(SnapshotCells({"P1", "P2"}, {Date1, Date2}, {100}, {0, 1, 2}))

\* Prices of a titanium and two steel products.
PriceInputs ==
    SnapshotTables(SnapshotCells({"P1", "P2", "P3"}, {Date1, Date2}, {100, 300}, {2}))

\* Prices and inventory histories of two steel products.
OpportunityInputs ==
    SnapshotTables(SnapshotCells({"P2", "P3"}, {Date1, Date2}, {100, 300}, {0, 2}))

\* Two fastener types, and rows without a date.
FilterInputs ==
    SnapshotTables(SnapshotCells({"P2", "P4"}, {Date1, NoDate}, {100}, {0, 2}))

DashStart ==
    /\ dpc = "start"
    /\ df = <<>>
    /\ fastener_type = NoSelection
    /\ filtered_df = <<>>
    /\ latest_df = <<>>
    /\ price_gap = [shown |-> FALSE]
    /\ product_df = <<>>
    /\ steel_summary = <<>>
    /\ thresholds = <<>>
    /\ messages = {}

\* The dashboard starts on a pair of files: the catalog with a snapshot
\* table, or a pair in which a file is missing, unreadable, empty, or
\* lacks the product of a snapshot.
InitDash ==
    /\ \/ /\ productsFile = OkFile(Catalog)
          /\ \E snaps \in DepletionInputs \cup PriceInputs \cup OpportunityInputs
                          \cup FilterInputs :
                snapshotsFile = OkFile(snaps)
       \/ /\ productsFile \in {MissingFile, MalformedFile, OkFile(<<>>),
                               OkFile(SubSeq(Catalog, 1, 1))}
          /\ \E snaps \in SnapshotTables(SnapshotCells({"P1", "P2"}, {Date1}, {100}, {2})) :
                snapshotsFile \in {MissingFile, MalformedFile, OkFile(snaps)}
    /\ wallClock = FirstDay
    /\ GenIdle
    /\ DashStart

NextDash == LoadData \/ Sidebar \/ Tab1 \/ Tab2 \/ Tab3

SpecDash == InitDash /\ [][NextDash]_vars

---------------------------------------------------------------------------
(* The calendar, stated on ISO dates directly (Gregorian rules), for the   *)
(* properties below: it shares nothing with to_datetime and strftime.      *)

IsLeapYear(y) == (y % 4 = 0 /\ y % 100 # 0) \/ y % 400 = 0

DaysInMonth(y, m) ==
    IF m = 2 THEN (IF IsLeapYear(y) THEN 29 ELSE 28)
    ELSE IF m \in {4, 6, 9, 11} THEN 30 ELSE 31

NextDay(ymd) ==
    IF ymd[3] < DaysInMonth(ymd[1], ymd[2]) THEN <<ymd[1], ymd[2], ymd[3] + 1>>
    ELSE IF ymd[2] < 12 THEN <<ymd[1], ymd[2] + 1, 1>>
    ELSE <<ymd[1] + 1, 1, 1>>

RECURSIVE AddDays(_, _)
AddDays(ymd, k) == IF k = 0 THEN ymd ELSE AddDays(NextDay(ymd), k - 1)

\* The ISO date the wall clock shows.
CalendarToday == AddDays(FirstDate, wallClock - FirstDay)

IsoLess(a, b) ==
    \/ a[1] < b[1]
    \/ a[1] = b[1] /\ a[2] < b[2]
    \/ a[1] = b[1] /\ a[2] = b[2] /\ a[3] < b[3]

\* The latest date_scraped of a non-empty table.
LatestIso(rows) ==
    CHOOSE d \in {rows[i].date_scraped : i \in 1..Len(rows)} :
        \A i \in 1..Len(rows) : ~IsoLess(d, rows[i].date_scraped)

Completes(p) == gpc[p] = "wrote_products" /\ gpc'[p] = "done"

---------------------------------------------------------------------------
(* Properties of the generator. *)

\* C4: under sequential runs from an empty table pair the snapshot table is
\* append-only with dense ids: every step keeps the rows already in the
\* file as they are and adds either nothing or exactly len(SIMULATED_PRODUCTS)
\* rows; the ids, in file order, are 0, 1, 2, ... without gap or duplicate;
\* and after k completed runs the file holds k * N rows.
C4_AppendOnlyDenseIds ==
    [][LET old == snapshotsFile.rows
           new == snapshotsFile'.rows
       IN  /\ Len(new) \in {Len(old), Len(old) + NProducts}
           /\ SubSeq(new, 1, Len(old)) = old
           /\ \A i \in 1..Len(new) : new[i].snapshot_id = i - 1
           /\ Len(new) = NProducts * completed']_vars

\* C4's case: two runs have completed and the second appended its rows
\* after the first's.
C4_SecondRunAppended ==
    /\ completed >= 2
    /\ Len(snapshotsFile.rows) = 2 * NProducts
    /\ snapshotsFile.rows[2 * NProducts].snapshot_id = 2 * NProducts - 1

\* C5: under sequential runs the run dates are strictly increasing and
\* gapless: a run that finds no snapshot stamps the calendar date of the
\* wall clock, any other run the day after the latest date_scraped in the
\* table, whatever the wall clock shows; every run's rows carry one date,
\* each run's date is the day after the previous run's, and no two
\* snapshots of a product share a date.
C5_RunDatesGapless ==
    [][/\ \A p \in Procs :
            (gpc[p] = "loaded" /\ gpc'[p] = "processed") =>
                today_str'[p] = IF snapshotsFile.rows = <<>> THEN CalendarToday
                                ELSE NextDay(LatestIso(snapshotsFile.rows))
       /\ LET new == snapshotsFile'.rows
          IN  /\ \A p \in Procs : Completes(p) =>
                    \A i \in Len(snapshotsFile.rows) + 1..Len(new) :
                        new[i].date_scraped = today_str[p]
              /\ \A i \in 1..Len(new) :
                    new[i].date_scraped =
                        IF i <= NProducts THEN new[1].date_scraped
                        ELSE NextDay(new[i - NProducts].date_scraped)
              /\ \A i, j \in 1..Len(new) :
                    (i # j /\ new[i].product_id = new[j].product_id)
                        => new[i].date_scraped # new[j].date_scraped]_vars

\* C5's case: two runs on a wall clock that never moved: the first run's
\* snapshots carry the leap day the calendar shows, the second run's are
\* dated 2024-03-01 while the calendar still shows the leap day.
C5_DatesRunAheadOfClock ==
    /\ wallClock = FirstDay
    /\ Len(snapshotsFile.rows) = 2 * NProducts
    /\ snapshotsFile.rows[1].date_scraped = <<2024, 2, 29>>
    /\ snapshotsFile.rows[2 * NProducts].date_scraped = <<2024, 3, 1>>

\* C6: a run's write of the product table inserts each product not yet in
\* it with first_seen_date = last_seen_date = the run's date, and changes
\* of a product already in it only last_seen_date, set to the run's date;
\* no row is dropped, moved or duplicated.
C6_ProductsOnlyLastSeenAdvances ==
    [][\A p \in Procs :
        (gpc[p] = "processed" /\ gpc'[p] = "wrote_products") =>
            LET old == productsFile.rows
                new == productsFile'.rows
            IN  /\ Len(new) >= Len(old)
                /\ \A k \in 1..Len(old) :
                      new[k] = [old[k] EXCEPT !.last_seen_date = today_str[p]]
                /\ \A k \in Len(old) + 1..Len(new) :
                      /\ new[k].first_seen_date = today_str[p]
                      /\ new[k].last_seen_date = today_str[p]
                      /\ ~HasProduct(old, new[k].product_id)
                /\ \A j, k \in 1..Len(new) :
                      j # k => new[j].product_id # new[k].product_id
                /\ \A i \in 1..NProducts :
                      HasProduct(new, ProductId(SIMULATED_PRODUCTS[i].sku))]_vars

\* C6's case: a later run has advanced last_seen_date of a product inserted
\* by an earlier one.
C6_ExistingProductSeenAgain ==
    /\ Len(productsFile.rows) = NProducts
    /\ productsFile.rows[1].first_seen_date = FirstDate
    /\ productsFile.rows[1].last_seen_date = NextDay(FirstDate)

ReferentialIntegrity(prods, snaps) ==
    \A i \in 1..Len(snaps) :
        Cardinality({k \in 1..Len(prods) :
                        prods[k].product_id = snaps[i].product_id}) = 1

\* C7: under sequential runs, with files removed or damaged between runs,
\* every completed run leaves two readable tables, and whenever both are
\* readable every snapshot's product_id is the product_id of exactly one
\* product row.
C7_ReferentialIntegrity ==
    [][/\ (\E p \in Procs : Completes(p)) =>
            (productsFile'.state = "ok" /\ snapshotsFile'.state = "ok")
       /\ (productsFile'.state = "ok" /\ snapshotsFile'.state = "ok") =>
            ReferentialIntegrity(productsFile'.rows, snapshotsFile'.rows)]_vars

\* C7's case: a run that found snapshots but no product file has completed.
C7_ProductsRebuiltForOldSnapshots ==
    \E p \in Procs :
        /\ gpc[p] = "done"
        /\ ~exists_products[p] /\ exists_snapshots[p]
        /\ productsFile.state = "ok" /\ snapshotsFile.state = "ok"
        /\ Len(snapshotsFile.rows) >= 2 * NProducts

\* C8 as stated: a run that finds a table file missing or malformed treats
\* the table as empty and completes: no run ends in an error.
C8_MissingOrMalformedNeverRaises ==
    \A p \in Procs : gpc[p] # "error"

StartFromEmptySnapshots(rows, date_str) ==
    /\ Len(rows) = NProducts
    /\ \A i \in 1..Len(rows) :
          /\ rows[i].snapshot_id = i - 1
          /\ rows[i].date_scraped = date_str
          /\ rows[i].product_id = ProductId(SIMULATED_PRODUCTS[i].sku)

StartFromEmptyProducts(rows, date_str) ==
    /\ Len(rows) = NProducts
    /\ \A i \in 1..Len(rows) :
          /\ rows[i].product_id = ProductId(SIMULATED_PRODUCTS[i].sku)
          /\ rows[i].first_seen_date = date_str
          /\ rows[i].last_seen_date = date_str

\* C8, amended: a missing file is treated as an empty table and the run
\* completes as a start-from-empty run for that table; a file that exists
\* but cannot be parsed makes the run end in an error at its read, before
\* anything is written; and a run ends in an error in no other case.
C8_MissingIsEmptyMalformedRaises ==
    [][\A p \in Procs :
        /\ (gpc[p] # "error" /\ gpc'[p] = "error") =>
              /\ \/ ~InFlight(p) /\ productsFile.state = "malformed"
                 \/ gpc[p] = "read_products" /\ snapshotsFile.state = "malformed"
              /\ UNCHANGED <<productsFile, snapshotsFile>>
        /\ (~InFlight(p) /\ gpc'[p] # gpc[p] /\ productsFile.state = "malformed")
              => gpc'[p] = "error"
        /\ (gpc[p] = "read_products" /\ gpc'[p] # gpc[p]
                /\ snapshotsFile.state = "malformed")
              => gpc'[p] = "error"
        /\ (Completes(p) /\ ~exists_snapshots[p]) =>
              StartFromEmptySnapshots(snapshotsFile'.rows, today_str[p])
        /\ (Completes(p) /\ ~exists_products[p]) =>
              /\ productsFile'.state = "ok"
              /\ StartFromEmptyProducts(productsFile'.rows, today_str[p])]_vars

\* C8's case: a run that found the product table but no snapshot file has
\* completed, after earlier runs had filled both.
C8_MissingSnapshotsRunCompleted ==
    \E p \in Procs :
        /\ gpc[p] = "done" /\ completed >= 2
        /\ exists_products[p] /\ ~exists_snapshots[p]
        /\ Len(snapshotsFile.rows) = NProducts
        /\ productsFile.rows[1].first_seen_date # productsFile.rows[1].last_seen_date

\* C10: when no two runs were ever in flight together, the tables at rest
\* are those of the completed runs executed one after the other: N rows per
\* completed run with ids 0, 1, 2, ..., and a product table last seen on
\* the date of the newest snapshots.
C10_SequentialRunsLoseNothing ==
    (NoneInFlight /\ ~overlapped) =>
        /\ Len(snapshotsFile.rows) = NProducts * completed
        /\ \A i \in 1..Len(snapshotsFile.rows) :
              snapshotsFile.rows[i].snapshot_id = i - 1
        /\ completed > 0 =>
              \A k \in 1..Len(productsFile.rows) :
                  productsFile.rows[k].last_seen_date =
                      snapshotsFile.rows[Len(snapshotsFile.rows)].date_scraped

\* C10's case: two interleaved runs have both completed and the table holds
\* the snapshots of only one of them: the other's were overwritten, which
\* no sequential execution of two runs produces.
C10_InterleavedRunLostSnapshots ==
    /\ NoneInFlight /\ overlapped
    /\ completed = 2
    /\ Len(snapshotsFile.rows) = NProducts

---------------------------------------------------------------------------
(* Properties of the dashboard. *)

AfterSidebar == dpc \in {"tab1", "tab2", "tab3", "done"}
AfterTab1 == dpc \in {"tab2", "tab3", "done"}

RowsOf(rows, id) == {i \in 1..Len(rows) : rows[i].product_id = id}

\* The dates of a product's rows are all present and pairwise different.
DatesDistinct(rows, id) ==
    \A i, j \in RowsOf(rows, id) :
        /\ rows[i].date_scraped # NaT
        /\ i # j => rows[i].date_scraped # rows[j].date_scraped

ExpectedRate(prev, cur) ==
    IF prev.inventory_level > cur.inventory_level
    THEN prev.inventory_level - cur.inventory_level
    ELSE 0

\* C1: in the filtered set (the rows of df of the selected type, each once)
\* every product's rows stand together in ascending date order; the first
\* row of a product has rate 0; every later row has the rate
\* prev.inventory - cur.inventory when that is positive and 0 otherwise,
\* prev being the product's row before it; no rate is negative.  For a
\* product with one snapshot per date this is the same by dates alone: the
\* earliest snapshot has rate 0 and each other one is measured against the
\* snapshot of the nearest earlier date.
C1_DepletionRate ==
    AfterSidebar =>
        LET f == filtered_df
        IN  /\ Len(f) = Cardinality({i \in 1..Len(df) : df[i].fastener_type = fastener_type})
            /\ {f[i].snapshot_id : i \in 1..Len(f)}
                  = {df[i].snapshot_id : i \in {k \in 1..Len(df) :
                                                  df[k].fastener_type = fastener_type}}
            /\ \A i \in 1..Len(f) :
                  /\ f[i].daily_depletion_rate >= 0
                  /\ \A j \in 1..(i - 1) :
                        f[j].product_id = f[i].product_id =>
                            /\ ~DateBefore(f[i].date_scraped, f[j].date_scraped)
                            /\ \A k \in j..i : f[k].product_id = f[i].product_id
                  /\ IF i = 1 \/ f[i - 1].product_id # f[i].product_id
                     THEN f[i].daily_depletion_rate = 0
                     ELSE f[i].daily_depletion_rate = ExpectedRate(f[i - 1], f[i])
            /\ \A i \in 1..Len(f) :
                  DatesDistinct(f, f[i].product_id) =>
                      LET before == {j \in RowsOf(f, f[i].product_id) :
                                        f[j].date_scraped[1] < f[i].date_scraped[1]}
                      IN  IF before = {} THEN f[i].daily_depletion_rate = 0
                          ELSE \E j \in before :
                                  /\ \A k \in before :
                                        f[k].date_scraped[1] <= f[j].date_scraped[1]
                                  /\ f[i].daily_depletion_rate = ExpectedRate(f[j], f[i])

\* C1's case: a product whose later snapshot stands first in the file has
\* sold two units between its two dates.
C1_DecreaseSeenAfterSorting ==
    /\ AfterSidebar
    /\ df # <<>> /\ df[1].date_scraped = ParseDate(Date2)
    /\ Len(filtered_df) = 2
    /\ filtered_df[1].product_id = filtered_df[2].product_id
    /\ filtered_df[1].date_scraped = ParseDate(Date1)
    /\ filtered_df[1].daily_depletion_rate = 0
    /\ filtered_df[2].daily_depletion_rate = 2

\* The materials of the steel family (their names contain "steel" in some
\* letter case), listed.
SteelFamilyMaterials == {"alloy steel", "stainless steel 316", "Stainless Steel 316"}

CountBelow(vals, a) == Cardinality({i \in 1..Len(vals) : RatLess(vals[i], a)})
CountUpTo(vals, a) == Cardinality({i \in 1..Len(vals) : ~RatLess(a, vals[i])})

\* The k-th smallest of vals, by counting.
KthSmallest(vals, k) ==
    CHOOSE a \in Range(vals) : CountBelow(vals, a) < k /\ CountUpTo(vals, a) >= k

RatEq(a, b) == a[1] * b[2] = b[1] * a[2]

\* m is the median of the non-empty vals: the middle value by rank, the
\* half sum of the two middle ones for an even count.
IsMedianOf(m, vals) ==
    LET n == Len(vals)
    IN  /\ notna(m)
        /\ IF n % 2 = 1 THEN RatEq(m, KthSmallest(vals, (n + 1) \div 2))
           ELSE LET lo == KthSmallest(vals, n \div 2)
                    hi == KthSmallest(vals, n \div 2 + 1)
                IN  m[1] * 2 * lo[2] * hi[2] = m[2] * (lo[1] * hi[2] + hi[1] * lo[2])

Permute(rows, perm) == [i \in 1..Len(rows) |-> rows[perm[i]]]

\* latest_df holds, for every product of the filtered set, exactly one row,
\* a row of that product carrying its latest date.
LatestPerProduct ==
    /\ {latest_df[k].product_id : k \in 1..Len(latest_df)}
          = {filtered_df[i].product_id : i \in 1..Len(filtered_df)}
    /\ \A j, k \in 1..Len(latest_df) :
          j # k => latest_df[j].product_id # latest_df[k].product_id
    /\ \A k \in 1..Len(latest_df) :
          /\ \E i \in 1..Len(filtered_df) : filtered_df[i] = latest_df[k]
          /\ \A i \in RowsOf(filtered_df, latest_df[k].product_id) :
                ~DateBefore(latest_df[k].date_scraped, filtered_df[i].date_scraped)
                   \/ filtered_df[i].date_scraped = NaT

RECURSIVE SumField(_, _, _)
SumField(rows, idx, name) ==
    IF idx = {} THEN 0
    ELSE LET i == CHOOSE i \in idx : TRUE
         IN  rows[i][name] + SumField(rows, idx \ {i}, name)

C9_EmptySelectionIsNotFatal ==
    (productsFile.state = "ok" /\ snapshotsFile.state = "ok" /\ filtered_df = <<>>) =>
        /\ dpc # "exception"
        /\ dpc = "done" => NoProductsFound \in messages

===========================================================================
